---- MODULE Spec2Model ----
(***************************************************************************)
(* Weight tracker bot: the weight ledger ('Pesi' worksheet), the           *)
(* subscription registry ('Notifiche' worksheet), the command handlers     *)
(* that read and write them, and the daily notification job.               *)
(*                                                                         *)
(* Weights are fixed-point numbers in tenths of a kilogram (75.5 kg is     *)
(* 755).  Dates are day ordinals; ordinal 0 is a Monday, so that           *)
(* date.weekday() is the ordinal modulo 7.                                 *)
(***************************************************************************)
EXTENDS Integers, Sequences, FiniteSets, TLC

\* ------------------------------------------------------------------ bounds
\* The most data rows the 'Pesi' worksheet holds in the model.
MaxRows == 3
\* The most data rows the 'Notifiche' worksheet holds in the model.
MaxNotifRows == 2
\* The most data rows the 'Pesi' worksheet holds in the concurrent specification.
ConcRows == 2
\* The last day of the calendar specification.
MaxDay == 17
\* The most data rows the 'Pesi' worksheet holds in the calendar specification.
CalRows == 1
\* The most data rows of the ledgers the history specification starts from
\* (one more than user_records[:7] keeps).
HistRows == 8
\* The most data rows of the ledgers with cells that do not parse.
CellRows == 2

\* ------------------------------------------------------- program constants
\* if weight < 20 or weight > 300  (tenths of a kilogram)
MinWeight == 200
MaxWeight == 3000
\* enumerate(all_records, start=2): row 1 of a worksheet is the header
FirstRow == 2
\* user_records[:7]
HistoryLimit == 7

\* Python's None for today_row / user_row (a row number is never below 2)
None == 0

\* ------------------------------------------------------------------ inputs
Procs == {1, 2}
Users == {101, 202}
NoArgs == <<>>

\* The clock values of the ledger specifications: a Sunday, the Monday and the
\* Sunday of the week after it, and the Monday of the week after that.
Days == {6, 7, 13, 14}
\* The clock values of the concurrent specification
ConcDays == {6, 7}
FirstDay == CHOOSE d \in Days : \A e \in Days : d <= e
\* The first clock value of the calendar specification (a Monday)
CalFirstDay == 7

T_nan == <<"n", "a", "n">>
T_inf == <<"i", "n", "f">>
T_minf == <<"-", "i", "n", "f">>
T_abc == <<"a", "b", "c">>
T_two_dots == <<"7", ",", "5", ".", "5">>
T_19_9 == <<"1", "9", ".", "9">>
T_20 == <<"2", "0">>
T_300 == <<"3", "0", "0">>
T_300_1 == <<"3", "0", "0", ",", "1">>
T_79 == <<"7", "9">>
T_80 == <<"8", "0", ".", "0">>
T_neg == <<"-", "5">>
T_75d5 == <<"7", "5", ".", "5">>
T_75c5 == <<"7", "5", ",", "5">>
T_76 == <<"7", "6">>
T_300d1 == <<"3", "0", "0", ".", "1">>
T_7d5d5 == <<"7", ".", "5", ".", "5">>

\* /peso arguments of the ledger specifications
LedgerArgs == {NoArgs, T_abc, T_79, T_80}
\* /peso arguments of the calendar specification
CalArgs == {NoArgs, T_nan, T_inf, T_minf, T_abc, T_two_dots, T_neg,
            T_19_9, T_20, T_300, T_300_1}
\* The ledgers the history specification starts from hold rows of one user
\* with these weights.
HistUser == CHOOSE u \in Users : \A v \in Users : u <= v
HistWeights == {780, 790, 800}
\* /peso arguments of the text specification: decimal texts written with a
\* dot and with a comma
TextArgs == {T_75d5, T_75c5, T_76, T_300d1, T_300_1, T_7d5d5, T_two_dots}
\* /notifica arguments
T_on == <<"o", "n">>
T_off == <<"o", "f", "f">>
T_ON == <<"O", "N">>
NotifArgs == {NoArgs, T_on, T_off, T_ON, T_abc}
\* /peso and /notifica arguments of the specification of all handlers
AllPesoArgs == {T_79}
AllNotifArgs == {T_on, T_off}

\* ------------------------------------------------- float(), str.replace()
Digits == {"0", "1", "2", "3", "4", "5", "6", "7", "8", "9"}

DigitVal(c) ==
    CASE c = "0" -> 0 [] c = "1" -> 1 [] c = "2" -> 2 [] c = "3" -> 3
      [] c = "4" -> 4 [] c = "5" -> 5 [] c = "6" -> 6 [] c = "7" -> 7
      [] c = "8" -> 8 [] c = "9" -> 9

\* Mutant of ReplaceComma: the text goes to float() as it was typed.
ReplaceComma_Identity(s) == s

\* context.args[0].replace(',', '.')
ReplaceComma(s) == [i \in DOMAIN s |-> IF s[i] = "," THEN "." ELSE s[i]]

RECURSIVE IntOfDigits(_)
IntOfDigits(s) ==
    IF Len(s) = 0 THEN 0
    ELSE 10 * IntOfDigits(SubSeq(s, 1, Len(s) - 1)) + DigitVal(s[Len(s)])

\* The value of an unsigned decimal literal, in tenths.  Literals with more
\* than one fractional digit are outside the modelled inputs.
DecimalTenths(s) ==
    LET dots == {i \in DOMAIN s : s[i] = "."}
    IN  IF dots = {} THEN 10 * IntOfDigits(s)
        ELSE LET d == CHOOSE i \in dots : TRUE
                 ip == SubSeq(s, 1, d - 1)
                 fp == SubSeq(s, d + 1, Len(s))
             IN  10 * IntOfDigits(ip) + (IF Len(fp) = 0 THEN 0 ELSE DigitVal(fp[1]))

\* Whether s is an unsigned decimal literal float() accepts: digits with at
\* most one dot and at least one digit.
IsDecimal(s) ==
    LET dots == {i \in DOMAIN s : s[i] = "."}
    IN  /\ Cardinality(dots) <= 1
        /\ \A i \in DOMAIN s : s[i] \in Digits \cup {"."}
        /\ \E i \in DOMAIN s : s[i] \in Digits

\* float(text): [ok |-> FALSE] is ValueError; cls is "num", "nan", "inf" or
\* "-inf"; v is the value in tenths when cls = "num".
float(s) ==
    LET signed == Len(s) > 0 /\ s[1] \in {"-", "+"}
        neg == Len(s) > 0 /\ s[1] = "-"
        body == IF signed THEN SubSeq(s, 2, Len(s)) ELSE s
    IN  IF body = T_nan THEN [ok |-> TRUE, cls |-> "nan", v |-> 0]
        ELSE IF body = T_inf
             THEN [ok |-> TRUE, cls |-> IF neg THEN "-inf" ELSE "inf", v |-> 0]
        ELSE IF IsDecimal(body)
             THEN [ok |-> TRUE, cls |-> "num",
                   v |-> IF neg THEN 0 - DecimalTenths(body) ELSE DecimalTenths(body)]
        ELSE [ok |-> FALSE, cls |-> "err", v |-> 0]

\* Mutant of OutOfRange: the bounds themselves are rejected (<=, >=).
OutOfRange_Exclusive(f) ==
    \/ f.cls = "inf"
    \/ f.cls = "-inf"
    \/ f.cls = "num" /\ (f.v <= MinWeight \/ f.v >= MaxWeight)

\* weight < 20 or weight > 300: every comparison with nan is False
OutOfRange(f) ==
    \/ f.cls = "inf"
    \/ f.cls = "-inf"
    \/ f.cls = "num" /\ (f.v < MinWeight \/ f.v > MaxWeight)

\* ------------------------------------------------------------------- dates
\* now.strftime('%Y-%m-%d'): the ISO text of a date (one text per date)
strftime(d) == [fmt |-> "%Y-%m-%d", ord |-> d]
\* datetime.strptime(text, '%Y-%m-%d').date(): -1 stands for ValueError/TypeError
strptime(s) == IF s.fmt = "%Y-%m-%d" THEN s.ord ELSE -1
\* date.weekday(): Monday is 0
weekday(d) == d % 7

\* float(record.get('Peso (kg)', 0)) of a stored cell: a number cell gives its
\* value, BadCell (a cell that is no number) raises ValueError
BadCell == -1
\* record.get('Peso (kg)', 0) of a row without that key gives the default 0
MissingCell == -2
CellFloat(c) == IF c = MissingCell THEN 0 ELSE c
\* A 'Data' cell that strptime rejects (other text, empty, or no text at all)
BadDate == [fmt |-> "other", ord |-> 0]

\* ---------------------------------------------------------------- sorting
\* list.sort(key=date) is stable: x goes after every entry whose date is not
\* later than its own
RECURSIVE InsertAsc(_, _)
InsertAsc(sorted, x) ==
    IF Len(sorted) = 0 THEN <<x>>
    ELSE IF sorted[Len(sorted)].data <= x.data THEN Append(sorted, x)
    ELSE Append(InsertAsc(SubSeq(sorted, 1, Len(sorted) - 1), x), sorted[Len(sorted)])

RECURSIVE SortAsc(_)
SortAsc(s) ==
    IF Len(s) = 0 THEN <<>>
    ELSE InsertAsc(SortAsc(SubSeq(s, 1, Len(s) - 1)), s[Len(s)])

\* list.sort(key=date, reverse=True) is stable too: x goes after every entry
\* whose date is not earlier than its own
RECURSIVE InsertDesc(_, _)
InsertDesc(sorted, x) ==
    IF Len(sorted) = 0 THEN <<x>>
    ELSE IF sorted[Len(sorted)].data >= x.data THEN Append(sorted, x)
    ELSE Append(InsertDesc(SubSeq(sorted, 1, Len(sorted) - 1), x), sorted[Len(sorted)])

RECURSIVE SortDesc(_)
SortDesc(s) ==
    IF Len(s) = 0 THEN <<>>
    ELSE InsertDesc(SortDesc(SubSeq(s, 1, Len(s) - 1)), s[Len(s)])

RECURSIVE SumPeso(_)
SumPeso(s) == IF Len(s) = 0 THEN 0 ELSE s[1].peso + SumPeso(Tail(s))

\* ------------------------------------------------------------------- state
VARIABLES
    weight_sheet,   \* the data rows of worksheet 'Pesi', in sheet order
    notif_sheet,    \* the data rows of worksheet 'Notifiche', in sheet order
    today,          \* datetime.now(TIMEZONE).date()
    pc,             \* where each handler invocation stands
    user,           \* update.effective_user.id of the invocation
    args,           \* register_weight: context.args[0] of the invocation
    weight,         \* register_weight: the parsed weight
    date_str,       \* register_weight: now.strftime('%Y-%m-%d')
    today_row,      \* register_weight: the row found by the scan, or None
    stato,          \* toggle_notifica: "on" or "off"
    user_row,       \* toggle_notifica: the row found by the scan, or None
    reply,          \* the last message the handlers sent, or the exception raised
    job_pc,         \* send_daily_notifications: "idle", "loop" or "done"
    job_records,    \* send_daily_notifications: all_records
    job_i,          \* send_daily_notifications: index of the next record
    attempts,       \* chat ids send_message was called with in the current run
    job_log         \* what the run logged: "none" or "error"

rwVars == <<args, weight, date_str, today_row>>
tnVars == <<stato, user_row>>
jobVars == <<job_pc, job_records, job_i, attempts, job_log>>
vars == <<weight_sheet, notif_sheet, today, pc, user, args, weight, date_str, today_row,
          stato, user_row, reply, job_pc, job_records, job_i, attempts, job_log>>

NoReply == [kind |-> "none"]
NoDate == [fmt |-> "", ord |-> 0]
NoWeight == [ok |-> FALSE, cls |-> "err", v |-> 0]

\* The state after __init__ on empty worksheets, on day d.
InitAt(d) ==
    /\ weight_sheet = <<>>
    /\ notif_sheet = <<>>
    /\ today = d
    /\ pc = [p \in Procs |-> "idle"]
    /\ user = [p \in Procs |-> 0]
    /\ args = [p \in Procs |-> NoArgs]
    /\ weight = [p \in Procs |-> NoWeight]
    /\ date_str = [p \in Procs |-> NoDate]
    /\ today_row = [p \in Procs |-> None]
    /\ stato = [p \in Procs |-> ""]
    /\ user_row = [p \in Procs |-> None]
    /\ reply = NoReply
    /\ job_pc = "idle"
    /\ job_records = <<>>
    /\ job_i = 0
    /\ attempts = <<>>
    /\ job_log = "none"

Init == InitAt(FirstDay)

\* The handler invocation p has returned: its locals are gone.
Return(p) ==
    /\ pc' = [pc EXCEPT ![p] = "idle"]
    /\ user' = [user EXCEPT ![p] = 0]
    /\ args' = [args EXCEPT ![p] = NoArgs]
    /\ weight' = [weight EXCEPT ![p] = NoWeight]
    /\ date_str' = [date_str EXCEPT ![p] = NoDate]
    /\ today_row' = [today_row EXCEPT ![p] = None]
    /\ stato' = [stato EXCEPT ![p] = ""]
    /\ user_row' = [user_row EXCEPT ![p] = None]

\* -------------------------------------------------------- register_weight
\* Mutant of ScanToday: the numeric 'User ID' cell is compared with the text
\* str(user.id), which never matches.
ScanToday_NoMatch(all_records, uid, ds) == None

\* Mutant of ScanToday: the loop has no break and keeps the last matching row.
ScanToday_Last(all_records, uid, ds) ==
    LET hits == {i \in DOMAIN all_records :
                    all_records[i].uid = uid /\ all_records[i].data = ds}
    IN  IF hits = {} THEN None
        ELSE (CHOOSE i \in hits : \A j \in hits : i >= j) + FirstRow - 1

\* for idx, record in enumerate(all_records, start=2): the first row of the
\* user with today's date, or None
ScanToday(all_records, uid, ds) ==
    LET hits == {i \in DOMAIN all_records :
                    all_records[i].uid = uid /\ all_records[i].data = ds}
    IN  IF hits = {} THEN None
        ELSE (CHOOSE i \in hits : \A j \in hits : i <= j) + FirstRow - 1

\* data = [str(user.id), username, date_str, weight, timestamp_str]
\* (Username and Timestamp are informational and left out of the rows.)
WeightRow(uid, ds, w) == [uid |-> uid, data |-> ds, peso |-> w]

\* Mutant of UpdateRow: the data goes to the first data row, whatever row the
\* scan found.
UpdateRow_FirstRow(sheet, row, data) == [sheet EXCEPT ![1] = data]

\* Mutant of UpdateRow: the row is appended instead of written over row.
UpdateRow_Appends(sheet, row, data) == Append(sheet, data)

\* worksheet.update(f'A{row}:E{row}', [data]): overwrite by row number
UpdateRow(sheet, row, data) == [sheet EXCEPT ![row - FirstRow + 1] = data]

\* Mutant of AppendRow: a row of the same user and date is replaced.
AppendRow_Upsert(sheet, data) ==
    LET hits == {i \in DOMAIN sheet : sheet[i].uid = data.uid /\ sheet[i].data = data.data}
    IN  IF hits = {} THEN Append(sheet, data)
        ELSE [sheet EXCEPT ![CHOOSE i \in hits : TRUE] = data]

\* worksheet.append_row(data)
AppendRow(sheet, data) == Append(sheet, data)

\* Insert-path invocations that have scanned and not yet written.
PendingInserts == Cardinality({q \in Procs : pc[q] = "rw_write" /\ today_row[q] = None})

\* Mutant of Reject: a rejected call clears the weight of the first row.
Reject_ClearsFirstRow(p, kind, uid, a) ==
    /\ reply' = [kind |-> kind, to |-> uid, arg |-> a]
    /\ Return(p)
    /\ weight_sheet' = IF Len(weight_sheet) = 0 THEN weight_sheet
                       ELSE [weight_sheet EXCEPT ![1].peso = 0]

\* await update.message.reply_text(...); return  -- before any store call
Reject(p, kind, uid, a) ==
    /\ reply' = [kind |-> kind, to |-> uid, arg |-> a]
    /\ Return(p)
    /\ UNCHANGED weight_sheet

\* register_weight up to and including the scan of all_records.
register_weight_scan(p, inputs, cap) ==
    /\ pc[p] = "idle"
    /\ \E uid \in Users, a \in inputs :
        IF a = NoArgs
        THEN \* if not context.args
             Reject(p, "missing_argument", uid, a)
        ELSE LET f == float(ReplaceComma(a)) IN
             IF ~f.ok
             THEN \* except ValueError
                  Reject(p, "invalid_format", uid, a)
             ELSE IF OutOfRange(f)
             THEN Reject(p, "out_of_range", uid, a)
             ELSE \/ \* get_all_records() raises: except Exception
                     /\ reply' = [kind |-> "error_saving", to |-> uid, arg |-> a]
                     /\ Return(p)
                     /\ UNCHANGED weight_sheet
                  \/ LET row == ScanToday(weight_sheet, uid, strftime(today)) IN
                     /\ row = None => Len(weight_sheet) + PendingInserts < cap
                     /\ pc' = [pc EXCEPT ![p] = "rw_write"]
                     /\ user' = [user EXCEPT ![p] = uid]
                     /\ args' = [args EXCEPT ![p] = a]
                     /\ weight' = [weight EXCEPT ![p] = f]
                     /\ date_str' = [date_str EXCEPT ![p] = strftime(today)]
                     /\ today_row' = [today_row EXCEPT ![p] = row]
                     /\ UNCHANGED <<weight_sheet, reply, stato, user_row>>
    /\ UNCHANGED <<notif_sheet, today, jobVars>>

\* register_weight from "if today_record_row" to the reply.
register_weight_write(p) ==
    /\ pc[p] = "rw_write"
    /\ \/ \* update()/append_row() raises: except Exception
          /\ reply' = [kind |-> "error_saving", to |-> user[p], arg |-> args[p]]
          /\ UNCHANGED weight_sheet
       \/ \* a nan cannot be encoded in the request: the call raises
          /\ weight[p].cls = "num"
          /\ LET data == WeightRow(user[p], date_str[p], weight[p].v) IN
             IF today_row[p] # None
             THEN /\ weight_sheet' = UpdateRow(weight_sheet, today_row[p], data)
                  /\ reply' = [kind |-> "updated", to |-> user[p], arg |-> args[p],
                               weight |-> weight[p].v, date |-> date_str[p]]
             ELSE /\ weight_sheet' = AppendRow(weight_sheet, data)
                  /\ reply' = [kind |-> "inserted", to |-> user[p], arg |-> args[p],
                               weight |-> weight[p].v, date |-> date_str[p]]
    /\ Return(p)
    /\ UNCHANGED <<notif_sheet, today, jobVars>>

\* The civil date advances.
Tick(days) ==
    /\ \E d \in days : d > today /\ today' = d
    /\ UNCHANGED <<weight_sheet, notif_sheet, pc, user, rwVars, tnVars, reply, jobVars>>

\* --------------------------------------------------------- weekly_average
\* Mutant of LastMonday: seven days back, whatever the weekday.
LastMonday_SevenDaysAgo(t) == t - 7

\* last_monday = today - timedelta(days=days_since_monday + 7)
LastMonday(t) == t - (weekday(t) + 7)
\* last_sunday = last_monday + timedelta(days=6)
LastSunday(t) == LastMonday(t) + 6

\* Mutant of InWindow: no lower end of the window.
InWindow_NoLowerBound(rec, uid, lm, ls) ==
    /\ rec.uid = uid
    /\ strptime(rec.data) # -1
    /\ strptime(rec.data) <= ls
    /\ rec.peso # BadCell

\* Mutant of InWindow: the Sunday is left out (<).
InWindow_ExclusiveEnd(rec, uid, lm, ls) ==
    /\ rec.uid = uid
    /\ strptime(rec.data) # -1
    /\ lm <= strptime(rec.data) /\ strptime(rec.data) < ls
    /\ rec.peso # BadCell

\* The filter of the loop over all_records: the user's rows whose 'Data'
\* parses, lies in the window and whose 'Peso (kg)' is a number; any other
\* row of the user is skipped (except (ValueError, TypeError): continue).
InWindow(rec, uid, lm, ls) ==
    /\ rec.uid = uid
    /\ strptime(rec.data) # -1
    /\ lm <= strptime(rec.data) /\ strptime(rec.data) <= ls
    /\ rec.peso # BadCell

\* {'data': record_date, 'peso': float(...)}
Entry(rec) == [data |-> strptime(rec.data), peso |-> CellFloat(rec.peso)]

RECURSIVE MapEntry(_)
MapEntry(rows) == IF Len(rows) = 0 THEN <<>> ELSE <<Entry(rows[1])>> \o MapEntry(Tail(rows))

WeeklyWeights(all_records, uid, lm, ls) ==
    LET Keep(rec) == InWindow(rec, uid, lm, ls)
    IN  MapEntry(SelectSeq(all_records, Keep))

\* The reply of weekly_average: both branches print the period from the same
\* last_monday and last_sunday, with the same format.
WeeklyReply(all_records, uid, t) ==
    LET last_monday == LastMonday(t)
        last_sunday == LastSunday(t)
        weekly_weights == WeeklyWeights(all_records, uid, last_monday, last_sunday)
    IN  IF Len(weekly_weights) = 0
        THEN [kind |-> "weekly_empty", to |-> uid, at |-> t,
              last_monday |-> last_monday, last_sunday |-> last_sunday]
        ELSE [kind |-> "weekly", to |-> uid, at |-> t,
              last_monday |-> last_monday, last_sunday |-> last_sunday,
              sum |-> SumPeso(weekly_weights), n |-> Len(weekly_weights),
              detail |-> SortAsc(weekly_weights)]

weekly_average(p) ==
    /\ pc[p] = "idle"
    /\ \E uid \in Users :
        \/ \* get_all_records() raises: except Exception
           reply' = [kind |-> "error_average", to |-> uid]
        \/ reply' = WeeklyReply(weight_sheet, uid, today)
    /\ UNCHANGED <<weight_sheet, notif_sheet, today, pc, user, rwVars, tnVars, jobVars>>

\* ----------------------------------------------------------------- history
\* The user's rows whose 'Data' parses and whose 'Peso (kg)' is a number.
IsUserRecord(rec, uid) ==
    /\ rec.uid = uid
    /\ strptime(rec.data) # -1
    /\ rec.peso # BadCell

UserRecords(all_records, uid) ==
    LET Keep(rec) == IsUserRecord(rec, uid)
    IN  MapEntry(SelectSeq(all_records, Keep))

\* Mutant of RecentRecords: the list is not cut to its first 7 entries.
RecentRecords_All(all_records, uid) == SortDesc(UserRecords(all_records, uid))

\* user_records.sort(key=date, reverse=True); user_records[:7]
RecentRecords(all_records, uid) ==
    LET sorted == SortDesc(UserRecords(all_records, uid))
    IN  SubSeq(sorted, 1, IF Len(sorted) < HistoryLimit THEN Len(sorted) ELSE HistoryLimit)

\* Mutant of DiffKind: a difference of zero is printed as an increase.
DiffKind_NoUnchanged(diff) == IF diff >= 0 THEN "increase" ELSE "decrease"

\* The line of entry i: its difference with the next older entry, if any.
DiffKind(diff) ==
    IF diff > 0 THEN "increase" ELSE IF diff < 0 THEN "decrease" ELSE "unchanged"

\* Mutant of HistoryLine: the difference is taken the other way round.
HistoryLine_Reversed(recent, i) ==
    IF i < Len(recent)
    THEN LET diff == recent[i + 1].peso - recent[i].peso
         IN  [data |-> recent[i].data, peso |-> recent[i].peso,
              delta |-> DiffKind(diff), diff |-> diff]
    ELSE [data |-> recent[i].data, peso |-> recent[i].peso,
          delta |-> "none", diff |-> 0]

HistoryLine(recent, i) ==
    IF i < Len(recent)
    THEN LET diff == recent[i].peso - recent[i + 1].peso
         IN  [data |-> recent[i].data, peso |-> recent[i].peso,
              delta |-> DiffKind(diff), diff |-> diff]
    ELSE [data |-> recent[i].data, peso |-> recent[i].peso,
          delta |-> "none", diff |-> 0]

\* The trend line: weights[0] against weights[-1]
Trend(recent) ==
    LET first == recent[1].peso
        last == recent[Len(recent)].peso
    IN  IF first < last THEN [dir |-> "down", amount |-> last - first]
        ELSE IF first > last THEN [dir |-> "up", amount |-> first - last]
        ELSE [dir |-> "none", amount |-> 0]

HistoryReply(all_records, uid) ==
    LET recent == RecentRecords(all_records, uid)
    IN  IF Len(UserRecords(all_records, uid)) = 0
        THEN [kind |-> "history_empty", to |-> uid]
        ELSE [kind |-> "history", to |-> uid,
              lines |-> [i \in 1..Len(recent) |-> HistoryLine(recent, i)],
              stats |-> Len(recent) > 1,
              sum |-> IF Len(recent) > 1 THEN SumPeso(recent) ELSE 0,
              n |-> IF Len(recent) > 1 THEN Len(recent) ELSE 0,
              trend |-> IF Len(recent) > 1 THEN Trend(recent)
                        ELSE [dir |-> "none", amount |-> 0]]

history(p) ==
    /\ pc[p] = "idle"
    /\ \E uid \in Users :
        \/ \* get_all_records() raises: except Exception
           reply' = [kind |-> "error_history", to |-> uid]
        \/ reply' = HistoryReply(weight_sheet, uid)
    /\ UNCHANGED <<weight_sheet, notif_sheet, today, pc, user, rwVars, tnVars, jobVars>>

\* -------------------------------------------------------- toggle_notifica
\* str.lower() on the letters of the modelled arguments
LowerChar(c) ==
    CASE c = "O" -> "o" [] c = "N" -> "n" [] c = "F" -> "f" [] OTHER -> c
lower(s) == [i \in DOMAIN s |-> LowerChar(s[i])]

\* Mutant of ScanUser: the numeric 'User ID' cell is compared with the text
\* str(user.id), which never matches.
ScanUser_NoMatch(all_records, uid) == None

\* for idx, record in enumerate(all_records, start=2): the first row of the
\* user, or None
ScanUser(all_records, uid) ==
    LET hits == {i \in DOMAIN all_records : all_records[i].uid = uid}
    IN  IF hits = {} THEN None
        ELSE (CHOOSE i \in hits : \A j \in hits : i <= j) + FirstRow - 1

\* data = [str(user.id), username, "TRUE"]  (Username is left out of the rows)
NotifRow(uid) == [uid |-> uid, attivo |-> "TRUE"]

\* notif_sheet.update(f"C{user_row}", [["FALSE"]]): only the 'Attivo' cell
DeactivateRow(sheet, row) == [sheet EXCEPT ![row - FirstRow + 1].attivo = "FALSE"]

\* Mutant of DeactivateIfFound: "off" for a user without a row appends an
\* inactive row.
DeactivateIfFound_CreatesRow(sheet, uid, row) ==
    IF row # None THEN DeactivateRow(sheet, row)
    ELSE Append(sheet, [uid |-> uid, attivo |-> "FALSE"])

\* else: if user_row: self.notif_sheet.update(f"C{user_row}", [["FALSE"]])
DeactivateIfFound(sheet, uid, row) ==
    IF row # None THEN DeactivateRow(sheet, row) ELSE sheet

PendingSubscribes ==
    Cardinality({q \in Procs : pc[q] = "tn_write" /\ stato[q] = T_on /\ user_row[q] = None})

\* toggle_notifica up to and including the scan of all_records.  The handler
\* has no try: an exception of the store leaves it, and no reply is sent.
toggle_notifica_scan(p, inputs, cap) ==
    /\ pc[p] = "idle"
    /\ \E uid \in Users, a \in inputs :
        IF a = NoArgs \/ lower(a) \notin {T_on, T_off}
        THEN /\ reply' = [kind |-> "usage", to |-> uid]
             /\ Return(p)
             /\ UNCHANGED notif_sheet
        ELSE \/ \* get_all_records() raises
                /\ reply' = [kind |-> "exception", to |-> uid]
                /\ Return(p)
                /\ UNCHANGED notif_sheet
             \/ LET row == ScanUser(notif_sheet, uid) IN
                IF lower(a) = T_off /\ row = None
                THEN \* nothing to deactivate: no store call follows
                     /\ notif_sheet' = DeactivateIfFound(notif_sheet, uid, row)
                     /\ reply' = [kind |-> "deactivated", to |-> uid]
                     /\ Return(p)
                ELSE /\ (lower(a) = T_on /\ row = None)
                          => Len(notif_sheet) + PendingSubscribes < cap
                     /\ pc' = [pc EXCEPT ![p] = "tn_write"]
                     /\ user' = [user EXCEPT ![p] = uid]
                     /\ stato' = [stato EXCEPT ![p] = lower(a)]
                     /\ user_row' = [user_row EXCEPT ![p] = row]
                     /\ UNCHANGED <<notif_sheet, reply, rwVars>>
    /\ UNCHANGED <<weight_sheet, today, jobVars>>

\* toggle_notifica from "if stato == 'on'" to the reply.
toggle_notifica_write(p) ==
    /\ pc[p] = "tn_write"
    /\ \/ \* update()/append_row() raises
          /\ reply' = [kind |-> "exception", to |-> user[p]]
          /\ UNCHANGED notif_sheet
       \/ IF stato[p] = T_on
          THEN /\ notif_sheet' = IF user_row[p] # None
                                 THEN UpdateRow(notif_sheet, user_row[p], NotifRow(user[p]))
                                 ELSE AppendRow(notif_sheet, NotifRow(user[p]))
               /\ reply' = [kind |-> "activated", to |-> user[p]]
          ELSE /\ notif_sheet' = DeactivateIfFound(notif_sheet, user[p], user_row[p])
               /\ reply' = [kind |-> "deactivated", to |-> user[p]]
    /\ Return(p)
    /\ UNCHANGED <<weight_sheet, today, jobVars>>

\* ----------------------------------------------- send_daily_notifications
\* str(rec.get('Attivo')).upper() == "TRUE"
upper(s) == CASE s = "true" -> "TRUE" [] s = "false" -> "FALSE" [] OTHER -> s
IsActive(rec) == upper(rec.attivo) = "TRUE"

\* The job starts: all_records = self.notif_sheet.get_all_records()
send_daily_notifications_start ==
    /\ job_pc \in {"idle", "done"}
    /\ attempts' = <<>>
    /\ \/ \* get_all_records() raises: except Exception, logged
          /\ job_records' = <<>>
          /\ job_i' = 0
          /\ job_log' = "error"
          /\ job_pc' = "done"
       \/ /\ job_records' = notif_sheet
          /\ job_i' = IF Len(notif_sheet) = 0 THEN 0 ELSE 1
          /\ job_log' = "none"
          /\ job_pc' = IF Len(notif_sheet) = 0 THEN "done" ELSE "loop"
    /\ UNCHANGED <<weight_sheet, notif_sheet, today, pc, user, rwVars, tnVars, reply>>

\* What follows record job_i when the loop goes on.
LoopOn ==
    /\ job_i' = IF job_i < Len(job_records) THEN job_i + 1 ELSE 0
    /\ job_pc' = IF job_i < Len(job_records) THEN "loop" ELSE "done"
    /\ UNCHANGED job_log

\* Mutant of send_daily_notifications_step: a user whose send fails is
\* unsubscribed.
send_daily_notifications_step_Unsubscribes ==
    /\ job_pc = "loop"
    /\ IF IsActive(job_records[job_i])
       THEN /\ attempts' = Append(attempts, job_records[job_i].uid)
            /\ \/ LoopOn /\ UNCHANGED notif_sheet
               \/ /\ job_log' = "error"
                  /\ job_i' = 0
                  /\ job_pc' = "done"
                  /\ notif_sheet' = [i \in DOMAIN notif_sheet |->
                        IF notif_sheet[i].uid = job_records[job_i].uid
                        THEN [notif_sheet[i] EXCEPT !.attivo = "FALSE"]
                        ELSE notif_sheet[i]]
       ELSE /\ UNCHANGED <<attempts, notif_sheet>>
            /\ LoopOn
    /\ UNCHANGED job_records
    /\ UNCHANGED <<weight_sheet, today, pc, user, rwVars, tnVars, reply>>

\* One iteration of "for rec in all_records".  The whole loop lies in one
\* try: an exception of send_message leaves the loop and is logged.
send_daily_notifications_step ==
    /\ job_pc = "loop"
    /\ IF IsActive(job_records[job_i])
       THEN /\ attempts' = Append(attempts, job_records[job_i].uid)
            /\ \/ LoopOn
               \/ \* send_message raises: except Exception
                  /\ job_log' = "error"
                  /\ job_i' = 0
                  /\ job_pc' = "done"
       ELSE /\ UNCHANGED attempts
            /\ LoopOn
    /\ UNCHANGED job_records
    /\ UNCHANGED <<weight_sheet, notif_sheet, today, pc, user, rwVars, tnVars, reply>>

\* ---------------------------------------------------------- specifications
\* The ledger handlers, two invocations at a time.
Next ==
    \/ \E p \in Procs : register_weight_scan(p, LedgerArgs, ConcRows)
    \/ \E p \in Procs : register_weight_write(p)
    \/ \E p \in Procs : weekly_average(p)
    \/ \E p \in Procs : history(p)
    \/ Tick(ConcDays)

Spec == Init /\ [][Next]_vars

\* The ledger handlers, one invocation after another.
NextSeq ==
    \/ register_weight_scan(1, LedgerArgs, MaxRows)
    \/ register_weight_write(1)
    \/ weekly_average(1)
    \/ history(1)
    \/ Tick(Days)

SpecSeq == Init /\ [][NextSeq]_vars

\* The subscription registry and the daily job, two invocations at a time.
NextNotif ==
    \/ \E p \in Procs : toggle_notifica_scan(p, NotifArgs, MaxNotifRows)
    \/ \E p \in Procs : toggle_notifica_write(p)
    \/ send_daily_notifications_start
    \/ send_daily_notifications_step

SpecNotif == Init /\ [][NextNotif]_vars

\* The subscription registry, one invocation after another, and the daily job.
NextNotifSeq ==
    \/ toggle_notifica_scan(1, NotifArgs, MaxNotifRows)
    \/ toggle_notifica_write(1)
    \/ send_daily_notifications_start
    \/ send_daily_notifications_step

SpecNotifSeq == Init /\ [][NextNotifSeq]_vars

\* The ledger handlers, one invocation after another, over every day from
\* CalFirstDay to MaxDay (every weekday) and the boundary inputs.
InitCal == InitAt(CalFirstDay)

NextCal ==
    \/ register_weight_scan(1, CalArgs, CalRows)
    \/ register_weight_write(1)
    \/ weekly_average(1)
    \/ history(1)
    \/ Tick(CalFirstDay..MaxDay)

SpecCal == InitCal /\ [][NextCal]_vars

\* /storico over ledgers that /peso calls of one user on consecutive days have
\* written: row i is dated day i.
InitHist ==
    /\ \E n \in 0..HistRows : \E w \in [1..n -> HistWeights] :
          weight_sheet = [i \in 1..n |-> WeightRow(HistUser, strftime(i), w[i])]
    /\ notif_sheet = <<>>
    /\ today = HistRows
    /\ pc = [p \in Procs |-> "idle"]
    /\ user = [p \in Procs |-> 0]
    /\ args = [p \in Procs |-> NoArgs]
    /\ weight = [p \in Procs |-> NoWeight]
    /\ date_str = [p \in Procs |-> NoDate]
    /\ today_row = [p \in Procs |-> None]
    /\ stato = [p \in Procs |-> ""]
    /\ user_row = [p \in Procs |-> None]
    /\ reply = NoReply
    /\ job_pc = "idle"
    /\ job_records = <<>>
    /\ job_i = 0
    /\ attempts = <<>>
    /\ job_log = "none"

NextHist == history(1)

SpecHist == InitHist /\ [][NextHist]_vars

\* /peso with dot and comma texts and /storico, one invocation after another.
NextText ==
    \/ register_weight_scan(1, TextArgs, ConcRows)
    \/ register_weight_write(1)
    \/ history(1)
    \/ Tick(ConcDays)

SpecText == Init /\ [][NextText]_vars

\* /media and /storico over ledgers whose cells were edited in the
\* spreadsheet.  get_all_records() keys every row by the header row: either
\* every row has the 'Peso (kg)' key (a number, or a cell that is none), or,
\* with another header in that column, no row has it.
CellDates == {strftime(6), strftime(7), BadDate}
CellPesos == {{790, 800, BadCell}, {MissingCell}}

InitCell ==
    /\ \E n \in 0..CellRows, pesos \in CellPesos :
          weight_sheet \in [1..n -> [uid : Users, data : CellDates, peso : pesos]]
    /\ notif_sheet = <<>>
    /\ today = FirstDay
    /\ pc = [p \in Procs |-> "idle"]
    /\ user = [p \in Procs |-> 0]
    /\ args = [p \in Procs |-> NoArgs]
    /\ weight = [p \in Procs |-> NoWeight]
    /\ date_str = [p \in Procs |-> NoDate]
    /\ today_row = [p \in Procs |-> None]
    /\ stato = [p \in Procs |-> ""]
    /\ user_row = [p \in Procs |-> None]
    /\ reply = NoReply
    /\ job_pc = "idle"
    /\ job_records = <<>>
    /\ job_i = 0
    /\ attempts = <<>>
    /\ job_log = "none"

NextCell ==
    \/ weekly_average(1)
    \/ history(1)
    \/ Tick(Days)

SpecCell == InitCell /\ [][NextCell]_vars

\* A /peso invocation, a /notifica invocation and the daily job, interleaved.
NextAll ==
    \/ register_weight_scan(1, AllPesoArgs, CalRows)
    \/ register_weight_write(1)
    \/ toggle_notifica_scan(2, AllNotifArgs, MaxNotifRows)
    \/ toggle_notifica_write(2)
    \/ send_daily_notifications_start
    \/ send_daily_notifications_step

SpecAll == Init /\ [][NextAll]_vars

\* ------------------------------------------------------------------ claims
\* The rows of the ledger for one user and one date text.
RowsFor(uid, ds) ==
    {i \in DOMAIN weight_sheet : weight_sheet[i].uid = uid /\ weight_sheet[i].data = ds}

\* The numbers the decimal texts of the inputs denote, in tenths.
TenthsOf(a) ==
    CASE a = T_19_9 -> 199 [] a = T_20 -> 200 [] a = T_300 -> 3000
      [] a = T_300_1 -> 3001 [] a = T_79 -> 790 [] a = T_80 -> 800
      [] a = T_neg -> -50 [] a = T_75d5 -> 755 [] a = T_75c5 -> 755
      [] a = T_76 -> 760 [] a = T_300d1 -> 3001

DecimalTexts == {T_19_9, T_20, T_300, T_300_1, T_79, T_80, T_neg}
NonFiniteTexts == {T_nan, T_inf, T_minf, T_abc, T_two_dots}
PesoReplies == {"missing_argument", "invalid_format", "out_of_range", "error_saving",
                "updated", "inserted"}

\* C1: with the /peso calls running one after another from an empty ledger,
\* no (user, date) pair ever has two rows, and after every successful call the
\* ledger holds exactly one row for the call's user and date, whose weight is
\* the number that call submitted.
C1_OneRecordHoldingLastValue ==
    /\ \A u \in Users, d \in Days : Cardinality(RowsFor(u, strftime(d))) <= 1
    /\ reply.kind \in {"updated", "inserted"} =>
          \E i \in DOMAIN weight_sheet :
              /\ RowsFor(reply.to, reply.date) = {i}
              /\ weight_sheet[i].peso = TenthsOf(reply.arg)

\* C1 witness: a later call of the same day has overwritten the row of its
\* pair, next to rows of other pairs.
C1_Witness ==
    /\ reply.kind = "updated"
    /\ Cardinality(RowsFor(reply.to, reply.date)) = 1
    /\ Len(weight_sheet) >= 2

\* C2: a /peso value is answered with the out-of-range message exactly when it
\* is below 20 or above 300; 20 and 300 themselves go on to the store, and when
\* the store calls succeed the ledger row of the day holds the value.
C2_RangeCheckInclusive ==
    (reply.kind \in PesoReplies /\ reply.arg \in DecimalTexts) =>
        /\ reply.kind = "out_of_range"
              <=> (TenthsOf(reply.arg) < 200 \/ TenthsOf(reply.arg) > 3000)
        /\ reply.kind # "invalid_format"
        /\ reply.kind \in {"updated", "inserted"} =>
              \E i \in RowsFor(reply.to, reply.date) :
                  weight_sheet[i].peso = TenthsOf(reply.arg)

\* C2 witness: the upper bound 300 itself has been stored.
C2_Witness ==
    /\ reply.kind = "inserted"
    /\ reply.arg = T_300
    /\ \E i \in DOMAIN weight_sheet : weight_sheet[i].peso = 3000

\* C3: every text that denotes no finite number ("abc", "7.5.5", "nan",
\* "inf", "-inf") is answered with the invalid-format message, and no /peso
\* invocation holding a value that is not a finite number reaches the store.
C3_NonFiniteIsInvalidFormat ==
    /\ (reply.kind \in PesoReplies /\ reply.arg \in NonFiniteTexts)
          => reply.kind = "invalid_format"
    /\ \A p \in Procs : pc[p] = "rw_write" => weight[p].cls = "num"

\* The rows of a sheet for one user and one date text.
RowsIn(sheet, uid, ds) ==
    {i \in DOMAIN sheet : sheet[i].uid = uid /\ sheet[i].data = ds}

\* C4: no lock spans the scan and the write, and the insert path does not look
\* at the ledger again: an invocation that scanned when its (user, date) pair
\* had no row appends one more row for the pair, also when another invocation
\* has appended a row for the same pair in between.
C4_InsertPathAppendsAnotherRow ==
    [][\A p \in Procs :
          (/\ pc[p] = "rw_write" /\ today_row[p] = None
           /\ pc'[p] = "idle" /\ reply'.kind = "inserted")
          => Cardinality(RowsIn(weight_sheet', user[p], date_str[p]))
               = Cardinality(RowsIn(weight_sheet, user[p], date_str[p])) + 1]_vars

\* C4 witness: both invocations scanned before either wrote, both appended,
\* and one (user, date) pair has two rows.
C4_Witness ==
    \E u \in Users, d \in ConcDays : Cardinality(RowsFor(u, strftime(d))) = 2

\* C5: when a run of the daily job has ended after reading the registry, a
\* send was attempted to every user who has an active record in the registry,
\* also when the send to another user failed earlier in the run.
C5_FailureDoesNotAbortDispatch ==
    job_pc = "done" =>
        \A i \in DOMAIN job_records :
            IsActive(job_records[i]) =>
                \E k \in DOMAIN attempts : attempts[k] = job_records[i].uid

\* C6: whatever the weekday of the day /media is asked, the period it reports
\* starts on a Monday, ends six days later on the day before the Monday of the
\* current week, and does not contain the day itself.
C6_PreviousWeekWindow ==
    reply.kind \in {"weekly", "weekly_empty"} =>
        /\ reply.last_monday % 7 = 0
        /\ reply.last_sunday = reply.last_monday + 6
        /\ \E m \in (reply.at - 6)..reply.at :
              m % 7 = 0 /\ reply.last_sunday = m - 1
        /\ ~(reply.last_monday <= reply.at /\ reply.at <= reply.last_sunday)

\* C6 witness: /media asked on a Sunday, the weekday farthest from its Monday.
C6_Witness ==
    /\ reply.kind \in {"weekly", "weekly_empty"}
    /\ reply.at % 7 = 6

\* The Monday of the week of day t.
MondayOf(t) == CHOOSE m \in (t - 6)..t : m % 7 = 0

\* The ledger rows of a user dated in the week before the week of day t.
PreviousWeekRows(uid, t) ==
    {i \in DOMAIN weight_sheet :
        /\ weight_sheet[i].uid = uid
        /\ MondayOf(t) - 7 <= weight_sheet[i].data.ord
        /\ weight_sheet[i].data.ord <= MondayOf(t) - 1}

\* C7: /media of a user with no row dated in the previous week (no row at
\* all, or rows outside the week only) gives the empty reply, and the empty
\* reply and the reply with a mean report the same period: the Monday and the
\* Sunday of the previous week.
C7_EmptyReplyCarriesWindow ==
    reply.kind \in {"weekly", "weekly_empty"} =>
        /\ PreviousWeekRows(reply.to, reply.at) = {} => reply.kind = "weekly_empty"
        /\ reply.last_monday = MondayOf(reply.at) - 7
        /\ reply.last_sunday = MondayOf(reply.at) - 1

\* C7 witness: the empty reply for a user who has a row, dated before the
\* window.
C7_Witness ==
    /\ reply.kind = "weekly_empty"
    /\ \E i \in DOMAIN weight_sheet :
          /\ weight_sheet[i].uid = reply.to
          /\ weight_sheet[i].data.ord < reply.last_monday

RECURSIVE PesoSum(_)
PesoSum(rows) ==
    IF rows = {} THEN 0
    ELSE LET i == CHOOSE j \in rows : TRUE
         IN  weight_sheet[i].peso + PesoSum(rows \ {i})

\* C8: the mean of /media is the sum over the count of the caller's rows
\* dated from the Monday to the Sunday of the previous week, both included,
\* and of no other row; with no such row there is no mean.
C8_MeanOverWindowRows ==
    /\ reply.kind = "weekly" =>
          /\ reply.n = Cardinality(PreviousWeekRows(reply.to, reply.at))
          /\ reply.sum = PesoSum(PreviousWeekRows(reply.to, reply.at))
          /\ reply.n > 0
    /\ reply.kind = "weekly_empty" => PreviousWeekRows(reply.to, reply.at) = {}

\* C8 witness: a mean over two rows of the caller, one dated the Monday and
\* one the Sunday of the window, while another user has a row in the window.
C8_Witness ==
    /\ reply.kind = "weekly"
    /\ reply.n = 2
    /\ \E i, j, k \in DOMAIN weight_sheet :
          /\ weight_sheet[i].uid = reply.to
          /\ weight_sheet[i].data.ord = reply.last_monday
          /\ weight_sheet[j].uid = reply.to
          /\ weight_sheet[j].data.ord = reply.last_sunday
          /\ weight_sheet[k].uid # reply.to
          /\ weight_sheet[k].data.ord >= reply.last_monday
          /\ weight_sheet[k].data.ord <= reply.last_sunday

\* C9: /storico lists at most 7 entries, each dated as a row of the caller,
\* and every entry is dated strictly later than the entry after it.
C9_HistoryStrictlyDescending ==
    reply.kind = "history" =>
        /\ Len(reply.lines) <= 7
        /\ \A i \in DOMAIN reply.lines :
              \E j \in DOMAIN weight_sheet :
                  /\ weight_sheet[j].uid = reply.to
                  /\ weight_sheet[j].data.ord = reply.lines[i].data
        /\ \A i \in 1..(Len(reply.lines) - 1) :
              reply.lines[i].data > reply.lines[i + 1].data

\* /storico listed exactly the weights 80.0, 79.0, 79.0, most recent first.
ThreeKnownWeights ==
    /\ reply.kind = "history"
    /\ Len(reply.lines) = 3
    /\ reply.lines[1].peso = 800
    /\ reply.lines[2].peso = 790
    /\ reply.lines[3].peso = 790

\* C10 as stated: of the weights 80.0, 79.0, 79.0 (most recent first) the
\* second entry is a decrease of 1.0 and the third is unchanged.
C10_SecondDecreaseThirdUnchanged ==
    ThreeKnownWeights =>
        /\ reply.lines[2].delta = "decrease"
        /\ reply.lines[2].diff \in {10, -10}
        /\ reply.lines[3].delta = "unchanged"

\* C10 amended: of the weights 80.0, 79.0, 79.0 (most recent first) the first
\* entry is an increase of 1.0 over the next older one, the second entry is
\* unchanged, and the third, the oldest, carries no difference.
C10_FirstIncreaseSecondUnchanged ==
    ThreeKnownWeights =>
        /\ reply.lines[1].delta = "increase"
        /\ reply.lines[1].diff = 10
        /\ reply.lines[2].delta = "unchanged"
        /\ reply.lines[3].delta = "none"

\* C10 witness: the three entries are listed.
C10_Witness ==
    /\ ThreeKnownWeights
    /\ reply.lines[1].data > reply.lines[2].data
    /\ reply.lines[2].data > reply.lines[3].data

\* The rows of the ledger /storico lists for a user of the history
\* specification, most recent first: the last HistoryLimit rows, backwards.
WindowRows ==
    LET n == Len(weight_sheet)
        k == IF n < HistoryLimit THEN n ELSE HistoryLimit
    IN  [i \in 1..k |-> weight_sheet[n + 1 - i]]

RECURSIVE SeqPesoSum(_)
SeqPesoSum(rows) == IF Len(rows) = 0 THEN 0 ELSE Head(rows).peso + SeqPesoSum(Tail(rows))

\* C11: with two or more entries listed, the mean of /storico is over the
\* listed entries only, and the trend compares the newest listed entry with
\* the oldest listed entry only: newest lower is a downward trend of oldest
\* minus newest, newest higher an upward trend of newest minus oldest, equal
\* no trend; rows older than the listed ones change neither.
C11_TrendOverWindowEnds ==
    (reply.kind = "history" /\ reply.to = HistUser) =>
        LET w == WindowRows
            newest == w[1].peso
            oldest == w[Len(w)].peso
        IN  /\ Len(reply.lines) = Len(w)
            /\ reply.stats <=> Len(w) > 1
            /\ reply.stats =>
                  /\ reply.sum = SeqPesoSum(w) /\ reply.n = Len(w)
                  /\ newest < oldest =>
                        reply.trend = [dir |-> "down", amount |-> oldest - newest]
                  /\ newest > oldest =>
                        reply.trend = [dir |-> "up", amount |-> newest - oldest]
                  /\ newest = oldest => reply.trend.dir = "none"

\* C11 witness: eight rows, seven listed; the newest is below the oldest
\* listed one and equal to the row that is not listed.
C11_Witness ==
    /\ reply.kind = "history"
    /\ Len(weight_sheet) = HistoryLimit + 1
    /\ Len(reply.lines) = HistoryLimit
    /\ reply.trend.dir = "down"
    /\ weight_sheet[1].peso = weight_sheet[HistoryLimit + 1].peso
    /\ weight_sheet[1].peso # weight_sheet[2].peso

\* The rows of the ledger of one user.
RowsOf(uid) == {i \in DOMAIN weight_sheet : weight_sheet[i].uid = uid}

\* C12: with the calls running one after another, /peso 76 on a date that
\* already has the user's row (of /peso 75.5) leaves exactly one row of the
\* user and date, holding 76; and /storico of a user with exactly one row
\* lists exactly that entry with no difference, no mean and no trend line.
C12_SecondSubmissionThenSingleEntry ==
    /\ (reply.kind = "updated" /\ reply.arg = T_76) =>
          \E i \in DOMAIN weight_sheet :
              /\ RowsFor(reply.to, reply.date) = {i}
              /\ weight_sheet[i].peso = 760
    /\ (reply.kind = "history" /\ Cardinality(RowsOf(reply.to)) = 1) =>
          /\ Len(reply.lines) = 1
          /\ \A i \in RowsOf(reply.to) :
                /\ reply.lines[1].peso = weight_sheet[i].peso
                /\ reply.lines[1].data = weight_sheet[i].data.ord
          /\ reply.lines[1].delta = "none"
          /\ ~reply.stats
          /\ reply.trend.dir = "none"

\* C12 witness: /storico has listed the single entry 76.0 of a user whose only
\* row holds 76.0.
C12_Witness ==
    /\ reply.kind = "history"
    /\ Len(reply.lines) = 1
    /\ reply.lines[1].peso = 760
    /\ \E i \in DOMAIN weight_sheet :
          RowsOf(reply.to) = {i} /\ weight_sheet[i].peso = 760

\* The rows of a registry sheet of one user.
NotifRowsOf(sheet, uid) == {i \in DOMAIN sheet : sheet[i].uid = uid}

\* C13: /notifica off of a user without a row is answered with the
\* deactivation message and leaves the registry as it was; and when
\* /notifica on ends with its confirmation, the registry holds a row of the
\* user with 'Attivo' TRUE, whether the scan found a row or not.
C13_OffWithoutRowIsNoOp ==
    [][/\ (/\ pc' = pc
           /\ jobVars' = jobVars
           /\ reply'.kind = "deactivated"
           /\ NotifRowsOf(notif_sheet, reply'.to) = {})
          => notif_sheet' = notif_sheet
       /\ \A p \in Procs :
             (/\ pc[p] = "tn_write" /\ pc'[p] = "idle"
              /\ stato[p] = T_on /\ reply'.kind = "activated")
             => \E i \in NotifRowsOf(notif_sheet', user[p]) :
                    notif_sheet'[i].attivo = "TRUE"]_vars

\* C13 witness: /notifica off has been confirmed to a user who has no row,
\* while another user has the row of a /notifica on.
C13_Witness ==
    /\ reply.kind = "deactivated"
    /\ NotifRowsOf(notif_sheet, reply.to) = {}
    /\ \E i \in DOMAIN notif_sheet : notif_sheet[i].attivo = "TRUE"

\* C14: with the /notifica calls running one after another, no user ever has
\* two rows; after a confirmed "on" the user's row holds TRUE, after a
\* confirmed "off" the user has no row holding TRUE; a call changes rows of
\* its own user only; and a call that repeats the call confirmed last leaves
\* the registry as that call left it.
C14_OneRowHoldingLastValue ==
    /\ [](/\ \A u \in Users : Cardinality(NotifRowsOf(notif_sheet, u)) <= 1
          /\ reply.kind = "activated" =>
                \E i \in DOMAIN notif_sheet :
                    /\ NotifRowsOf(notif_sheet, reply.to) = {i}
                    /\ notif_sheet[i].attivo = "TRUE"
          /\ reply.kind = "deactivated" =>
                \A i \in NotifRowsOf(notif_sheet, reply.to) :
                    notif_sheet[i].attivo = "FALSE")
    /\ [][/\ \A i \in DOMAIN notif_sheet :
                /\ i \in DOMAIN notif_sheet'
                /\ notif_sheet'[i] # notif_sheet[i] =>
                      /\ notif_sheet[i].uid = reply'.to
                      /\ notif_sheet'[i].uid = reply'.to
          /\ (reply' = reply /\ reply.kind \in {"activated", "deactivated"})
                => notif_sheet' = notif_sheet]_vars

\* C14 witness: a confirmed "off" has turned the row of an earlier "on" to
\* FALSE, next to the active row of another user.
C14_Witness ==
    /\ reply.kind = "deactivated"
    /\ \E i \in NotifRowsOf(notif_sheet, reply.to) : notif_sheet[i].attivo = "FALSE"
    /\ \E i \in DOMAIN notif_sheet : notif_sheet[i].attivo = "TRUE"
    /\ pc[1] = "idle"

\* C15: a store call that fails in a handler ends the invocation with its
\* generic failure message to the caller: no invocation is left by the
\* exception of the store with nothing sent.
C15_StoreFailureIsReported ==
    reply.kind # "exception"

\* The rows of a user whose date and weight are both there and well formed.
GoodRows(uid) ==
    {i \in DOMAIN weight_sheet :
        /\ weight_sheet[i].uid = uid
        /\ weight_sheet[i].data # BadDate
        /\ weight_sheet[i].peso \notin {BadCell, MissingCell}}

\* C16: /media and /storico skip every row of the caller whose date or weight
\* is missing or malformed: the entries, the count and the sum are those of
\* the caller's well-formed rows (of the window, for /media), and with no
\* such row the reply is the empty one.
C16_MalformedRowsSkipped ==
    /\ reply.kind \in {"weekly", "weekly_empty"} =>
          LET g == {i \in GoodRows(reply.to) :
                      /\ reply.last_monday <= weight_sheet[i].data.ord
                      /\ weight_sheet[i].data.ord <= reply.last_sunday}
          IN  /\ reply.kind = "weekly_empty" <=> g = {}
              /\ reply.kind = "weekly" =>
                    reply.n = Cardinality(g) /\ reply.sum = PesoSum(g)
    /\ reply.kind \in {"history", "history_empty"} =>
          LET g == GoodRows(reply.to)
          IN  /\ reply.kind = "history_empty" <=> g = {}
              /\ reply.kind = "history" =>
                    /\ Len(reply.lines) = Cardinality(g)
                    /\ \A k \in DOMAIN reply.lines : \E i \in g :
                          /\ reply.lines[k].data = weight_sheet[i].data.ord
                          /\ reply.lines[k].peso = weight_sheet[i].peso

\* C17: a weight text written with a comma has the outcome of the same text
\* written with a dot: "75,5" and "75.5" are both accepted and stored as
\* 75.5, "300,1" and "300.1" are both out of range, "7,5.5" and "7.5.5" are
\* both an invalid format.
C17_CommaAsDot ==
    reply.kind \in PesoReplies =>
        /\ reply.arg \in {T_75c5, T_75d5} =>
              /\ reply.kind \in {"updated", "inserted", "error_saving"}
              /\ reply.kind \in {"updated", "inserted"} =>
                    \E i \in RowsFor(reply.to, reply.date) : weight_sheet[i].peso = 755
        /\ reply.arg \in {T_300_1, T_300d1} => reply.kind = "out_of_range"
        /\ reply.arg \in {T_two_dots, T_7d5d5} => reply.kind = "invalid_format"

\* C17 witness: "75,5" has been stored as 75.5.
C17_Witness ==
    /\ reply.kind = "inserted"
    /\ reply.arg = T_75c5
    /\ \E i \in RowsFor(reply.to, reply.date) : weight_sheet[i].peso = 755

\* C18: every listed entry but the last carries the difference of its weight
\* with the weight of the entry listed after it, as an increase when
\* positive, a decrease when negative and unchanged when zero; the last
\* listed entry carries no difference, also when the ledger holds an older
\* row that is not listed.
C18_DeltaAgainstNextOlder ==
    (reply.kind = "history" /\ reply.to = HistUser) =>
        LET w == WindowRows IN
        /\ Len(reply.lines) = Len(w)
        /\ \A i \in 1..(Len(w) - 1) :
              LET d == w[i].peso - w[i + 1].peso IN
              /\ reply.lines[i].peso = w[i].peso
              /\ reply.lines[i].diff = d
              /\ d > 0 => reply.lines[i].delta = "increase"
              /\ d < 0 => reply.lines[i].delta = "decrease"
              /\ d = 0 => reply.lines[i].delta = "unchanged"
        /\ reply.lines[Len(w)].peso = w[Len(w)].peso
        /\ reply.lines[Len(w)].delta = "none"

\* C18 witness: seven entries listed of eight rows, with an increase, a
\* decrease and an unchanged entry among them; the row that is not listed
\* differs from the oldest listed one.
C18_Witness ==
    /\ reply.kind = "history"
    /\ Len(weight_sheet) = HistoryLimit + 1
    /\ Len(reply.lines) = HistoryLimit
    /\ reply.lines[HistoryLimit].delta = "none"
    /\ weight_sheet[1].peso # weight_sheet[2].peso
    /\ \A k \in {"increase", "decrease", "unchanged"} :
          \E i \in DOMAIN reply.lines : reply.lines[i].delta = k

\* The number of send_message calls of the run to one user.
SendsTo(uid) == Cardinality({k \in DOMAIN attempts : attempts[k] = uid})

\* C19: when a run of the daily job has ended with no send failing, every
\* user with an active row among the rows it read has been sent exactly one
\* reminder, and every other user none.
C19_OneReminderPerActiveUser ==
    (job_pc = "done" /\ job_log = "none") =>
        \A u \in Users :
            SendsTo(u) = IF \E i \in DOMAIN job_records :
                               job_records[i].uid = u /\ IsActive(job_records[i])
                         THEN 1 ELSE 0

\* C20: no step of the daily job, whether its read or a send succeeds or
\* fails and whatever /peso and /notifica invocations are under way, changes
\* a row of the ledger or of the registry.
C20_JobLeavesSheetsUnchanged ==
    [][jobVars' # jobVars =>
          (weight_sheet' = weight_sheet /\ notif_sheet' = notif_sheet)]_vars

\* C20 witness: a run has ended on a failed send while a /peso and a
\* /notifica invocation are between their scan and their write.
C20_Witness ==
    /\ job_pc = "done"
    /\ job_log = "error"
    /\ Len(attempts) >= 1
    /\ \E p, q \in Procs : pc[p] = "rw_write" /\ pc[q] = "tn_write"

\* The positions of a sheet whose row differs in the next state.
ChangedRows == {i \in DOMAIN weight_sheet :
                   i \notin DOMAIN weight_sheet' \/ weight_sheet'[i] # weight_sheet[i]}

\* C21: with /peso invocations interleaved, the ledger never loses a row, and
\* the write of an invocation of user u on date d changes at most one row:
\* either it appends one row and changes none, or it changes one row that
\* already held user u and date d; rows of other users or dates stay as they
\* were.
C21_WriteTouchesOwnRowOnly ==
    [][/\ Len(weight_sheet') >= Len(weight_sheet)
       /\ \A p \in Procs :
             (pc[p] = "rw_write" /\ pc'[p] = "idle") =>
                /\ Len(weight_sheet') <= Len(weight_sheet) + 1
                /\ Cardinality(ChangedRows) <= 1
                /\ Len(weight_sheet') > Len(weight_sheet) => ChangedRows = {}
                /\ \A i \in ChangedRows :
                      /\ weight_sheet[i].uid = user[p]
                      /\ weight_sheet[i].data = date_str[p]
                /\ \A i \in DOMAIN weight_sheet' \ DOMAIN weight_sheet :
                      /\ weight_sheet'[i].uid = user[p]
                      /\ weight_sheet'[i].data = date_str[p]]_vars

\* C21 witness: a row has been overwritten in the second position, next to the
\* row of another user, while another invocation is between scan and write.
C21_Witness ==
    /\ reply.kind = "updated"
    /\ Len(weight_sheet) = 2
    /\ weight_sheet[2].uid = reply.to
    /\ weight_sheet[2].peso = reply.weight
    /\ weight_sheet[1].uid # reply.to
    /\ \E q \in Procs : pc[q] = "rw_write"

RejectReplies == {"missing_argument", "invalid_format", "out_of_range"}

\* C22: a /peso call answered with the missing-argument, the invalid-format
\* or the out-of-range message writes nothing: the ledger after the call is
\* the ledger before it.
C22_RejectedCallWritesNothing ==
    [][reply'.kind \in RejectReplies => weight_sheet' = weight_sheet]_vars

\* C22 witness: a value out of range has been rejected while the ledger holds
\* a row.
C22_Witness ==
    /\ reply.kind = "out_of_range"
    /\ reply.arg \in {T_19_9, T_300_1}
    /\ Len(weight_sheet) >= 1

\* The first position of a sheet holding a row of the user and date, or 0.
FirstRowIn(sheet, uid, ds) ==
    IF RowsIn(sheet, uid, ds) = {} THEN 0
    ELSE CHOOSE i \in RowsIn(sheet, uid, ds) : \A j \in RowsIn(sheet, uid, ds) : i <= j

\* C23: the scan of a /peso invocation finds a row exactly when the ledger
\* holds a row of the caller and the date, and then the first such row; a
\* successful invocation reports the update exactly when its scan found a
\* row, and the insert otherwise.  The update writes the caller's data over
\* the first row of the pair and appends nothing; the insert appends exactly
\* one row, the caller's, and changes no row that was there.
C23_ReportedPathIsPathTaken ==
    [][\A p \in Procs :
          /\ (pc[p] = "idle" /\ pc'[p] = "rw_write") =>
                today_row'[p] =
                    IF RowsIn(weight_sheet, user'[p], date_str'[p]) = {} THEN None
                    ELSE FirstRowIn(weight_sheet, user'[p], date_str'[p]) + FirstRow - 1
          /\ (/\ pc[p] = "rw_write" /\ pc'[p] = "idle"
              /\ reply'.kind \in {"updated", "inserted"}) =>
                LET data == [uid |-> user[p], data |-> date_str[p], peso |-> weight[p].v]
                    first == FirstRowIn(weight_sheet, user[p], date_str[p])
                IN  /\ reply'.kind = "updated" <=> today_row[p] # None
                    /\ reply'.kind = "updated" =>
                          /\ Len(weight_sheet') = Len(weight_sheet)
                          /\ first # 0
                          /\ ChangedRows \subseteq {first}
                          /\ weight_sheet'[first] = data
                    /\ reply'.kind = "inserted" =>
                          /\ Len(weight_sheet') = Len(weight_sheet) + 1
                          /\ ChangedRows = {}
                          /\ weight_sheet'[Len(weight_sheet')] = data]_vars

\* C23 witness: an update has been reported for a pair that has two rows;
\* the first holds the reported weight and the second another one.
C23_Witness ==
    /\ reply.kind = "updated"
    /\ Len(weight_sheet) = 2
    /\ RowsFor(reply.to, reply.date) = {1, 2}
    /\ weight_sheet[1].peso = reply.weight
    /\ weight_sheet[2].peso # reply.weight

\* /notifica off of user u is the call confirmed last, and no /notifica on of
\* u is between its scan and its write.
OffCompleted(u) ==
    /\ reply.kind = "deactivated"
    /\ reply.to = u
    /\ ~\E q \in Procs : pc[q] = "tn_write" /\ user[q] = u /\ stato[q] = T_on

\* C24: a run of the daily job that starts after /notifica off of user u has
\* been confirmed, with no /notifica on of u issued since or under way, reads
\* no active row of u, and so sends u no reminder.
C24_NoReminderAfterOff ==
    [][\A u \in Users :
          (/\ OffCompleted(u)
           /\ job_pc \in {"idle", "done"}
           /\ jobVars' # jobVars
           /\ job_log' = "none")
          => \A i \in DOMAIN job_records' :
                 ~(job_records'[i].uid = u /\ IsActive(job_records'[i]))]_vars

====
